---- MODULE Spec2Model ----
(***************************************************************************)
(* A model of gaia_align: src/align.py (star centroiding, batch refinement *)
(* and the outlier-filtered offset) and src/mes_check.py (data extension   *)
(* and pixel scale lookup).                                                *)
(*                                                                         *)
(* Pixel coordinates are real numbers in the program.  Here a coordinate   *)
(* is an integer number of sub-pixel units, Q units to the pixel, so that  *)
(* round(), int() and the slice arithmetic are computed exactly.           *)
(* The Gaussian fit (scipy's curve_fit on the image data) is an oracle:    *)
(* each of the two fits either fails or returns some mean.                 *)
(***************************************************************************)
EXTENDS Integers, Sequences, FiniteSets

VARIABLES
    pc,              \* which step of the modelled operation comes next
    image_shape,     \* <<rows, columns>> of image_data
    x_position,      \* cut_star's x guess, in sub-pixel units
    y_position,      \* cut_star's y guess, in sub-pixel units
    popt,            \* what the two curve_fit calls produce for this stamp
    star_cutout,     \* cut_star's return value
    current_gaia,    \* Image.current_gaia_x / current_gaia_y, per candidate
    manual_offset,   \* the offset _fit_gaia_coords is called with
    i,               \* get_usable_gaia's loop index
    accurate_x,      \* get_usable_gaia's accurate_x list
    accurate_y,      \* get_usable_gaia's accurate_y list
    indicies,        \* get_usable_gaia's indicies list
    cut_log,         \* cut_star's return value for each candidate so far
    fit_result,      \* what _fit_gaia_coords stored, returned or raised
    header,          \* the FITS header handed to get_pixscale_from_wcs
    pixscale,        \* get_pixscale_from_wcs's outcome
    hdul,            \* the data block of each part of the HDU list
    data_extension,  \* find_data_extension's return value
    image_init       \* the outcome of Image.__init__'s part selection

cutVars == <<image_shape, x_position, y_position, popt, star_cutout>>
batchVars == <<current_gaia, manual_offset, i, accurate_x, accurate_y,
               indicies, cut_log, fit_result>>
scaleVars == <<header, pixscale>>
extVars == <<hdul, data_extension, image_init>>
vars == <<pc, cutVars, batchVars, scaleVars, extVars>>

(***************************************************************************)
(* Bounds of the model and the program's constant.                         *)
(***************************************************************************)
BOX_PADDING == 20

\* sub-pixel units per pixel
Q == 4

\* the two image side lengths explored: one shorter than a stamp, one longer
SmallDim == 30

LargeDim == 44

Abs(n) == IF n < 0 THEN -n ELSE n

Min(a, b) == IF a < b THEN a ELSE b

Max(a, b) == IF a > b THEN a ELSE b

None == [tag |-> "None"]

(***************************************************************************)
(* Python's number conversions, on a coordinate of v sub-pixel units.      *)
(***************************************************************************)
\* a variant of int(x) that takes the floor
IntTruncAsFloor(v) == v \div Q

\* int(x): truncation toward zero, in whole pixels
IntTrunc(v) == IF v >= 0 THEN v \div Q ELSE -((-v) \div Q)

\* round(x): to the nearest whole pixel, a tie to the even one
Round(v) ==
    LET lo == v \div Q
        r == v % Q
    IN  IF 2 * r < Q THEN lo
        ELSE IF 2 * r > Q THEN lo + 1
        ELSE IF lo % 2 = 0 THEN lo ELSE lo + 1

(***************************************************************************)
(* A basic slice a[start:stop] of an axis of length n: a negative bound    *)
(* counts from the end, and both bounds are clipped to 0..n.               *)
(***************************************************************************)
SliceBound(b, n) == IF b < 0 THEN Max(b + n, 0) ELSE Min(b, n)

SliceLen(start, stop, n) == Max(SliceBound(stop, n) - SliceBound(start, n), 0)

\* the shape <<rows, columns>> of create_postage_stamp's result
create_postage_stamp(x, y, shape) ==
    LET x_position_rounded == Round(x)
        y_position_rounded == Round(y)
    IN  << SliceLen(y_position_rounded - BOX_PADDING,
                    y_position_rounded + BOX_PADDING, shape[1]),
           SliceLen(x_position_rounded - BOX_PADDING,
                    x_position_rounded + BOX_PADDING, shape[2]) >>

(***************************************************************************)
(* gauss_fit on x_array of length x_len and y_array of length y_len.       *)
(* x_array * y_array raises ValueError when the lengths do not broadcast;  *)
(* curve_fit raises TypeError with fewer residuals than the 4 parameters;  *)
(* otherwise the outcome is the oracle's: no fit (no convergence, or a     *)
(* non-finite guess) or the fitted mean popt[2], in sub-pixel units.       *)
(***************************************************************************)
NPARAMS == 4

\* the oracle's answers: no fit, or a fit with this mean
NoFit == [ok |-> FALSE, mean |-> 0]

Fitted(m) == [ok |-> TRUE, mean |-> m]

Popt(m) == [raised |-> "no", mean |-> m]

Raise(e) == [raised |-> e, mean |-> 0]

gauss_fit(x_len, y_len, fitted) ==
    IF x_len # y_len /\ x_len # 1 /\ y_len # 1 THEN Raise("ValueError")
    ELSE IF (y_len # 1 /\ NPARAMS > y_len) \/ NPARAMS > Max(x_len, y_len)
         THEN Raise("TypeError")
    ELSE IF ~fitted.ok THEN Raise("RuntimeError")
    ELSE Popt(fitted.mean)

\* get_star_position: x_values has len(row_sum) entries for both fits
get_star_position(stamp, fits) ==
    LET rows == stamp[1]
        cols == stamp[2]
        row_popt == gauss_fit(rows, rows, fits.row)
        column_popt == gauss_fit(rows, cols, fits.col)
    IN  IF row_popt.raised # "no" THEN [tag |-> "raise", x |-> 0, y |-> 0]
        ELSE IF column_popt.raised # "no" THEN [tag |-> "raise", x |-> 0, y |-> 0]
        ELSE [tag |-> "ok", x |-> column_popt.mean, y |-> row_popt.mean]

CutResult(stamp, ax, ay) ==
    [tag |-> "tuple", stamp |-> stamp, accurate_x |-> ax, accurate_y |-> ay]

cut_star(x, y, shape, fits) ==
    LET image_postage_stamp == create_postage_stamp(x, y, shape)
        local == get_star_position(image_postage_stamp, fits)
    IN  IF image_postage_stamp[1] = 0 \/ image_postage_stamp[2] = 0 THEN None
        ELSE IF local.tag = "raise" THEN None
        ELSE CutResult(image_postage_stamp,
                       (IntTrunc(x) - BOX_PADDING) * Q + local.x,
                       (IntTrunc(y) - BOX_PADDING) * Q + local.y)

(***************************************************************************)
(* Inputs of the cut_star specification.                                   *)
(***************************************************************************)
ImageDims == {SmallDim, LargeDim}

GuessCells == {-1, 0, 15, 22, 25}

Guesses == {c * Q + f : c \in GuessCells, f \in 0 .. Q - 1}

\* fitted means, in sub-pixel units from the stamp's first row or column
LocalMeans == {5 * Q, BOX_PADDING * Q, BOX_PADDING * Q + 1}

FitAnswers == {NoFit} \cup {Fitted(m) : m \in LocalMeans}

FitOutcomes == [row : FitAnswers, col : FitAnswers]

IdleCut ==
    /\ image_shape = <<0, 0>>
    /\ x_position = 0
    /\ y_position = 0
    /\ popt = [row |-> NoFit, col |-> NoFit]
    /\ star_cutout = None

IdleBatch ==
    /\ current_gaia = <<>>
    /\ manual_offset = <<0, 0>>
    /\ i = 0
    /\ accurate_x = <<>>
    /\ accurate_y = <<>>
    /\ indicies = <<>>
    /\ cut_log = <<>>
    /\ fit_result = None

IdleScale ==
    /\ header = <<>>
    /\ pixscale = None

IdleExt ==
    /\ hdul = <<>>
    /\ data_extension = None
    /\ image_init = None

(***************************************************************************)
(* get_usable_gaia and Image._fit_gaia_coords.                             *)
(***************************************************************************)
\* the largest number of catalogue candidates
MaxN == 9

\* sigma_clipped_stats' defaults: sigma=3.0, maxiters=5
SIGMA == 3

MAXITERS == 5

\* s[1] + ... + s[k]
RECURSIVE SumTo(_, _)
SumTo(s, k) == IF k = 0 THEN 0 ELSE s[k] + SumTo(s, k - 1)

SeqSum(s) == SumTo(s, Len(s))

\* s[1]^2 + ... + s[k]^2
RECURSIVE SumSqTo(_, _)
SumSqTo(s, k) == IF k = 0 THEN 0 ELSE s[k] * s[k] + SumSqTo(s, k - 1)

\* the entries of s from position k on at the positions keep holds of
RECURSIVE FilterFrom(_, _, _)
FilterFrom(s, keep, k) ==
    IF k > Len(s) THEN <<>>
    ELSE (IF keep[k] THEN <<s[k]>> ELSE <<>>) \o FilterFrom(s, keep, k + 1)

\* the entries of s at the positions keep holds of, in order
Filter(s, keep) == FilterFrom(s, keep, 1)

\* the largest r with r * r <= n
ISqrt(n) == CHOOSE r \in 0 .. n : r * r <= n /\ (r + 1) * (r + 1) > n

\* np.hypot, on the offsets the model draws (their norm is a whole number)
Hypot(a, b) == ISqrt(a * a + b * b)

\* the k-th smallest entry of s, k in 1..Len(s)
Kth(s, k) ==
    CHOOSE v \in {s[j] : j \in 1 .. Len(s)} :
        /\ Cardinality({j \in 1 .. Len(s) : s[j] < v}) < k
        /\ Cardinality({j \in 1 .. Len(s) : s[j] <= v}) >= k

\* twice np.median(s), s not empty
Median2(s) ==
    LET n == Len(s)
    IN  IF n % 2 = 1 THEN 2 * Kth(s, n \div 2 + 1)
        ELSE Kth(s, n \div 2) + Kth(s, n \div 2 + 1)

\* Len(s)^2 times np.var(s), ddof = 0
N2Var(s) == Len(s) * SumSqTo(s, Len(s)) - SeqSum(s) * SeqSum(s)

\* the entries v of s, from position k on, with
\* median - 3 std <= v <= median + 3 std, where m2 is twice the median and
\* n2var is n^2 times the variance
RECURSIVE WithinBoundsFrom(_, _, _, _, _)
WithinBoundsFrom(s, n, m2, n2var, k) ==
    IF k > n THEN <<>>
    ELSE (IF (2 * s[k] - m2) * (2 * s[k] - m2) * n * n
                <= 4 * SIGMA * SIGMA * n2var
          THEN <<s[k]>> ELSE <<>>)
         \o WithinBoundsFrom(s, n, m2, n2var, k + 1)

WithinBounds(s, n, m2, n2var) == WithinBoundsFrom(s, n, m2, n2var, 1)

\* one pass of SigmaClip
SigmaClipPass(s) == WithinBounds(s, Len(s), Median2(s), N2Var(s))

RECURSIVE SigmaClip(_, _)
SigmaClip(s, iters) ==
    IF iters = 0 THEN s
    ELSE IF Len(SigmaClipPass(s)) = Len(s) THEN s
    ELSE SigmaClip(SigmaClipPass(s), iters - 1)

\* sigma_clipped_stats(diff): the median (doubled) and the standard
\* deviation (as n and n^2 * variance) of the clipped data
Stats(clipped) ==
    [median2 |-> Median2(clipped), n |-> Len(clipped), n2var |-> N2Var(clipped)]

sigma_clipped_stats(diff) == Stats(SigmaClip(diff, MAXITERS))

\* a variant of the cut that keeps d = diff_median + diff_std too
BelowOrAtCut(d, stats) ==
    LET a == 2 * d - stats.median2
    IN  a <= 0 \/ a * a * stats.n * stats.n <= 4 * stats.n2var

\* d < diff_median + 1 * diff_std
BelowCut(d, stats) ==
    LET a == 2 * d - stats.median2
    IN  a < 0 \/ a * a * stats.n * stats.n < 4 * stats.n2var

\* np.mean of a list: NaN for the empty list, else the exact quotient
NaN == [nan |-> TRUE, num |-> 0, den |-> 1]

Mean(s) == IF s = <<>> THEN NaN
           ELSE [nan |-> FALSE, num |-> SeqSum(s), den |-> Len(s)]

\* catalogue candidate k (0-based): predicted pixel position and sky position
Candidate(k) ==
    [x |-> (IF k % 8 = 2 THEN 3 ELSE BOX_PADDING + 2 + 5 * k) * Q,
     y |-> (BOX_PADDING + 2 + 3 * k) * Q,
     ra |-> 1000 + k,
     dec |-> 2000 - k]

\* the fits candidate k's stamp can get: none, the predicted centre, a
\* centre 1 unit right of it and, for every third candidate (a neighbour
\* in its stamp), a centre 3 units right and 4 units up of it
BatchFits(k) ==
    { [row |-> NoFit, col |-> NoFit],
      [row |-> Fitted(BOX_PADDING * Q), col |-> Fitted(BOX_PADDING * Q)],
      [row |-> Fitted(BOX_PADDING * Q), col |-> Fitted(BOX_PADDING * Q + 1)] }
    \cup (IF k % 3 = 0
          THEN {[row |-> Fitted(BOX_PADDING * Q + 4),
                 col |-> Fitted(BOX_PADDING * Q + 3)]}
          ELSE {})

\* the operator's drag: 2 pixels right, 1 pixel down
ManualOffsets == {<<2 * Q, -Q>>}

\* updated_gaia_x / updated_gaia_y of candidate k (0-based)
updated_gaia_x(k) == current_gaia[k + 1].x + manual_offset[1]

updated_gaia_y(k) == current_gaia[k + 1].y + manual_offset[2]

InitBatch ==
    /\ pc = "get_usable_gaia"
    /\ image_shape = <<2 * LargeDim, 2 * LargeDim>>
    /\ \E n \in 0 .. MaxN : current_gaia = [k \in 1 .. n |-> Candidate(k - 1)]
    /\ manual_offset \in ManualOffsets
    /\ i = 0
    /\ accurate_x = <<>>
    /\ accurate_y = <<>>
    /\ indicies = <<>>
    /\ cut_log = <<>>
    /\ fit_result = None
    /\ x_position = 0 /\ y_position = 0
    /\ popt = [row |-> NoFit, col |-> NoFit]
    /\ star_cutout = None
    /\ IdleScale /\ IdleExt

\* a variant of the append that counts candidates from 1
AppendIndexFromOne(list, k) == Append(list, k + 1)

\* indicies.append(i), line 106
AppendIndex(list, k) == Append(list, k)

\* one iteration of get_usable_gaia's loop, for candidate i
UsableGaiaIter ==
    /\ pc = "get_usable_gaia"
    /\ i < Len(current_gaia)
    /\ \E fits \in BatchFits(i) :
          LET cutout == cut_star(updated_gaia_x(i), updated_gaia_y(i),
                                 image_shape, fits)
          IN  /\ cut_log' = Append(cut_log, cutout)
              /\ IF cutout # None
                 THEN /\ accurate_x' = Append(accurate_x, cutout.accurate_x)
                      /\ accurate_y' = Append(accurate_y, cutout.accurate_y)
                      /\ indicies' = AppendIndex(indicies, i)
                 ELSE UNCHANGED <<accurate_x, accurate_y, indicies>>
    /\ i' = i + 1
    /\ UNCHANGED <<pc, current_gaia, manual_offset, fit_result>>
    /\ UNCHANGED <<cutVars, scaleVars, extVars>>

\* the discrepancies of line 189 for the first k survivors
RECURSIVE DiffTo(_, _, _, _)
DiffTo(msk, acc_x, acc_y, k) ==
    IF k = 0 THEN <<>>
    ELSE Append(DiffTo(msk, acc_x, acc_y, k - 1),
                Hypot(updated_gaia_x(msk[k]) - acc_x[k],
                      updated_gaia_y(msk[k]) - acc_y[k]))

\* the discrepancies of line 189, one per survivor
Diff(msk, acc_x, acc_y) == DiffTo(msk, acc_x, acc_y, Len(msk))

\* diff < diff_median + 1*diff_std, for the first k survivors
RECURSIVE CutMaskTo(_, _, _)
CutMaskTo(diff, stats, k) ==
    IF k = 0 THEN <<>>
    ELSE Append(CutMaskTo(diff, stats, k - 1), BelowCut(diff[k], stats))

\* diff < diff_median + 1*diff_std, as a mask over the survivors
CutMask(diff, stats) == CutMaskTo(diff, stats, Len(diff))

\* np.where(diff < diff_median + 1*diff_std)[0], as a mask over the survivors
Cut(diff) == CutMask(diff, sigma_clipped_stats(diff))

\* lines 193 to 200: the mean offsets over the kept survivors, and the kept
\* sky and pixel coordinates.  The offsets are stored (lines 193, 194)
\* before SkyCoord is built from the kept sky positions (line 198); whether
\* SkyCoord accepts an empty list is the library's choice, empty_sky_ok.
KeptOutputs(cut, kept_msk, kept_x, kept_y, empty_sky_ok) ==
    [tag |-> IF kept_msk = <<>> /\ ~empty_sky_ok
             THEN "SkyCoordError" ELSE "returned",
     cut |-> cut,
     gaia_offset_x |-> Mean([k \in 1 .. Len(kept_msk) |->
           kept_x[k] - current_gaia[kept_msk[k] + 1].x]),
     gaia_offset_y |-> Mean([k \in 1 .. Len(kept_msk) |->
           kept_y[k] - current_gaia[kept_msk[k] + 1].y]),
     gaia_skycoords |-> [k \in 1 .. Len(kept_msk) |->
           << current_gaia[kept_msk[k] + 1].ra,
              current_gaia[kept_msk[k] + 1].dec >>],
     gaia_pixcoords |-> <<kept_x, kept_y>>]

\* lines 189 to 200 of _fit_gaia_coords, after get_usable_gaia returned
fit_gaia_coords(msk, acc_x, acc_y, empty_sky_ok) ==
    IF msk = <<>>
    THEN \* an empty index array is a float array: indexing with it raises
         [tag |-> "IndexError"]
    ELSE LET cut == Cut(Diff(msk, acc_x, acc_y))
         IN  KeptOutputs(cut, Filter(msk, cut), Filter(acc_x, cut),
                         Filter(acc_y, cut), empty_sky_ok)

\* get_usable_gaia returns and _fit_gaia_coords runs to its end
FitGaiaCoords ==
    /\ pc = "get_usable_gaia"
    /\ i = Len(current_gaia)
    /\ \E empty_sky_ok \in BOOLEAN :
          fit_result' = fit_gaia_coords(indicies, accurate_x, accurate_y,
                                        empty_sky_ok)
    /\ pc' = "fitted"
    /\ UNCHANGED <<current_gaia, manual_offset, i, accurate_x, accurate_y,
                   indicies, cut_log>>
    /\ UNCHANGED <<cutVars, scaleVars, extVars>>

NextBatch == UsableGaiaIter \/ FitGaiaCoords

SpecBatch == InitBatch /\ [][NextBatch]_vars

(***************************************************************************)
(* get_pixscale_from_wcs.  A header maps each keyword to whether the card  *)
(* is present and, if so, its value.                                       *)
(***************************************************************************)
\* header values range over -MaxScale .. MaxScale
MaxScale == 2

Keys == {"CDELT1", "CD1_1", "PC1_1"}

Absent == [present |-> FALSE, value |-> 0]

Cards == {Absent} \cup {[present |-> TRUE, value |-> v] : v \in -MaxScale .. MaxScale}

Headers == [Keys -> Cards]

PixValue(v) == [tag |-> "value", value |-> v, msg |-> ""]

PixRaise(e, m) == [tag |-> e, value |-> 0, msg |-> m]

\* a variant that tries CD1_1 before CDELT1
get_pixscale_cd_first(h) ==
    IF h["CD1_1"].present THEN PixValue(Abs(h["CD1_1"].value))
    ELSE IF h["CDELT1"].present THEN PixValue(Abs(h["CDELT1"].value))
    ELSE IF h["PC1_1"].present THEN PixValue(Abs(h["PC1_1"].value))
    ELSE PixRaise("ValueError", "NO PIXSCALE FOUND.")

\* a variant that gives up without trying PC1_1
get_pixscale_two_keys(h) ==
    IF h["CDELT1"].present THEN PixValue(Abs(h["CDELT1"].value))
    ELSE IF h["CD1_1"].present THEN PixValue(Abs(h["CD1_1"].value))
    ELSE PixRaise("ValueError", "NO PIXSCALE FOUND.")

\* header[key] raises KeyError when the card is absent
get_pixscale_from_wcs(h) ==
    IF h["CDELT1"].present THEN PixValue(Abs(h["CDELT1"].value))
    ELSE IF h["CD1_1"].present THEN PixValue(Abs(h["CD1_1"].value))
    ELSE IF h["PC1_1"].present THEN PixValue(Abs(h["PC1_1"].value))
    ELSE PixRaise("ValueError", "NO PIXSCALE FOUND.")

InitScale ==
    /\ pc = "get_pixscale"
    /\ header \in Headers
    /\ pixscale = None
    /\ IdleCut /\ IdleBatch /\ IdleExt

GetPixscale ==
    /\ pc = "get_pixscale"
    /\ pixscale' = get_pixscale_from_wcs(header)
    /\ pc' = "scaled"
    /\ UNCHANGED <<header, cutVars, batchVars, extVars>>

NextScale == GetPixscale

SpecScale == InitScale /\ [][NextScale]_vars

(***************************************************************************)
(* find_data_extension and its use in Image.__init__.  Each part of the    *)
(* HDU list has hdu.data None, an array of no elements, or an array with   *)
(* elements.                                                               *)
(***************************************************************************)
\* the largest number of parts of an HDU list
MaxParts == 4

DataBlocks == {"None", "Empty", "Data"}

HDULists == UNION {[1 .. n -> DataBlocks] : n \in 0 .. MaxParts}

IntVal(n) == [tag |-> "int", value |-> n]

\* the loop returns the first index i with hdu.data is not None, and falls
\* off its end, returning None, when there is none
find_data_extension(h) ==
    IF \E k \in 1 .. Len(h) : h[k] # "None"
    THEN IntVal((CHOOSE k \in 1 .. Len(h) :
                    /\ h[k] # "None"
                    /\ \A j \in 1 .. k - 1 : h[j] = "None") - 1)
    ELSE None

\* self.hdul[self.data_extension]: HDUList indexing with None raises KeyError
SelectPart(h, ext) ==
    IF ext = None THEN [tag |-> "KeyError", part |-> 0, data |-> "None"]
    ELSE [tag |-> "selected", part |-> ext.value, data |-> h[ext.value + 1]]

InitExt ==
    /\ pc = "find_data_extension"
    /\ hdul \in HDULists
    /\ data_extension = None
    /\ image_init = None
    /\ IdleCut /\ IdleBatch /\ IdleScale

\* self.data_extension = find_data_extension(self.hdul)
FindDataExtension ==
    /\ pc = "find_data_extension"
    /\ data_extension' = find_data_extension(hdul)
    /\ pc' = "select_part"
    /\ UNCHANGED <<hdul, image_init, cutVars, batchVars, scaleVars>>

\* self.data = self.hdul[self.data_extension].data, and the header likewise
ImageInit ==
    /\ pc = "select_part"
    /\ image_init' = SelectPart(hdul, data_extension)
    /\ pc' = "initialised"
    /\ UNCHANGED <<hdul, data_extension, cutVars, batchVars, scaleVars>>

NextExt == FindDataExtension \/ ImageInit

SpecExt == InitExt /\ [][NextExt]_vars

InitCut ==
    /\ pc = "cut_star"
    /\ image_shape \in ImageDims \X ImageDims
    /\ x_position \in Guesses
    /\ y_position \in Guesses
    /\ popt = [row |-> NoFit, col |-> NoFit]
    /\ star_cutout = None
    /\ IdleBatch /\ IdleScale /\ IdleExt

\* one call cut_star(x_position, y_position, image_data)
CutStar ==
    /\ pc = "cut_star"
    /\ \E fits \in FitOutcomes :
          /\ popt' = fits
          /\ star_cutout' = cut_star(x_position, y_position, image_shape, fits)
    /\ pc' = "returned"
    /\ UNCHANGED <<image_shape, x_position, y_position>>
    /\ UNCHANGED <<batchVars, scaleVars, extVars>>

NextCut == CutStar

SpecCut == InitCut /\ [][NextCut]_vars

(***************************************************************************)
(* The claims.                                                             *)
(***************************************************************************)
\* the requested region [round - 20, round + 20) lies inside the image
StampInside(x, y, shape) ==
    /\ Round(x) - BOX_PADDING >= 0
    /\ Round(x) + BOX_PADDING <= shape[2]
    /\ Round(y) - BOX_PADDING >= 0
    /\ Round(y) + BOX_PADDING <= shape[1]

\* floor(v / Q): the mathematical floor, in whole pixels
Floor(v) == v \div Q

\* the n-th smallest member of the set S of integers
NthSmallest(S, n) == CHOOSE v \in S : Cardinality({u \in S : u < v}) = n - 1

\* C1: at every point of get_usable_gaia's loop the three lists have the
\* same length, the index list is strictly ascending and within 0..N-1,
\* it holds candidate c exactly when cut_star succeeded for c, and entry k
\* of the refined lists is cut_star's result for candidate indicies[k];
\* every iteration completes (a failed candidate is dropped, nothing raised).
C1_SurvivorArraysAligned ==
    /\ Len(accurate_x) = Len(indicies)
    /\ Len(accurate_y) = Len(indicies)
    /\ Len(cut_log) = i
    /\ i <= Len(current_gaia)
    /\ \A k \in 1 .. Len(indicies) - 1 : indicies[k] < indicies[k + 1]
    /\ \A c \in 0 .. i - 1 :
          (\E k \in 1 .. Len(indicies) : indicies[k] = c) <=> cut_log[c + 1] # None
    /\ \A k \in 1 .. Len(indicies) :
          /\ indicies[k] \in 0 .. Len(current_gaia) - 1
          /\ indicies[k] < i
          /\ cut_log[indicies[k] + 1] # None
          /\ accurate_x[k] = cut_log[indicies[k] + 1].accurate_x
          /\ accurate_y[k] = cut_log[indicies[k] + 1].accurate_y

\* C1's case: the loop has finished with at least two survivors and a
\* failed candidate between them
C1_Witness ==
    /\ pc = "get_usable_gaia"
    /\ i = Len(current_gaia)
    /\ Len(indicies) >= 2
    /\ \E c \in 0 .. i - 1 :
          /\ cut_log[c + 1] = None
          /\ indicies[1] < c
          /\ c < indicies[Len(indicies)]

\* C2: a guess whose stamp region is not fully inside the image makes
\* cut_star return None, never a refined position.
C2_OutsideStampFails ==
    (pc = "returned" /\ ~StampInside(x_position, y_position, image_shape))
        => star_cutout = None

TowardZero(v) == IF v >= 0 THEN Floor(v) ELSE -Floor(-v)

C4_InsufficientMatchesRaised ==
    pc = "fitted" =>
        /\ (indicies = <<>> \/ \A k \in 1 .. Len(indicies) : ~fit_result.cut[k])
              => fit_result.tag = "InsufficientMatchesError"
        /\ fit_result.tag \in {"returned", "SkyCoordError"}
              => ~fit_result.gaia_offset_x.nan /\ ~fit_result.gaia_offset_y.nan
        /\ fit_result.tag = "returned" => fit_result.gaia_skycoords # <<>>

\* C5: with at least one of the three keys present, get_pixscale_from_wcs
\* returns the absolute value of the first present of CDELT1, CD1_1, PC1_1,
\* whatever the later keys hold.
C5_FirstPresentKeyAbs ==
    (pc = "scaled" /\ \E key \in Keys : header[key].present) =>
        /\ pixscale.tag = "value"
        /\ pixscale.value >= 0
        /\ header["CDELT1"].present
              => pixscale.value \in {header["CDELT1"].value, -header["CDELT1"].value}
        /\ (~header["CDELT1"].present /\ header["CD1_1"].present)
              => pixscale.value \in {header["CD1_1"].value, -header["CD1_1"].value}
        /\ (~header["CDELT1"].present /\ ~header["CD1_1"].present)
              => pixscale.value \in {header["PC1_1"].value, -header["PC1_1"].value}

\* C5's case: CDELT1 is absent, CD1_1 is present and negative, PC1_1 is
\* present with another magnitude, and the lookup has returned
C5_Witness ==
    /\ pc = "scaled"
    /\ ~header["CDELT1"].present
    /\ header["CD1_1"].present /\ header["CD1_1"].value < 0
    /\ header["PC1_1"].present
    /\ Abs(header["PC1_1"].value) # Abs(header["CD1_1"].value)
    /\ pixscale.tag = "value"

\* C6: get_pixscale_from_wcs fails with its no-pixel-scale error (the
\* ValueError 'NO PIXSCALE FOUND.') exactly when none of the three keys is
\* present, and then returns no value.
C6_RaisesIffNoKey ==
    pc = "scaled" =>
        /\ (\A key \in Keys : ~header[key].present)
              <=> (pixscale.tag = "ValueError" /\ pixscale.msg = "NO PIXSCALE FOUND.")
        /\ pixscale.tag \in {"value", "ValueError"}

\* C6's case: a header with none of the keys, and the lookup has raised
C6_Witness ==
    /\ pc = "scaled"
    /\ \A key \in Keys : ~header[key].present
    /\ pixscale.tag = "ValueError"

\* C7: when some part holds a non-empty, non-null data block,
\* find_data_extension returns the smallest index of such a part, skipping
\* null and empty blocks alike.
C7_FirstNonEmptyPart ==
    (pc # "find_data_extension" /\ \E k \in 1 .. Len(hdul) : hdul[k] = "Data") =>
        /\ data_extension.tag = "int"
        /\ hdul[data_extension.value + 1] = "Data"
        /\ \A j \in 1 .. data_extension.value : hdul[j] # "Data"

\* C8: when no part holds data, find_data_extension fails with
\* NoDataExtensionFound, and Image.__init__ never selects a part with a
\* null index.
C8_NoDataExtensionRaised ==
    /\ (pc # "find_data_extension" /\ \A k \in 1 .. Len(hdul) : hdul[k] = "None")
          => data_extension.tag = "NoDataExtensionFound"
    /\ pc = "select_part" => data_extension # None

\* C9: the kept survivors are exactly those with discrepancy strictly below
\* the clipped median plus one clipped standard deviation, and the returned
\* sky and pixel arrays have one entry per kept survivor, in ascending
\* original index, entry n being that candidate's catalogue (ra, dec) and
\* its refined (x, y).
C9_KeptSetMatched ==
    (pc = "fitted" /\ fit_result.tag \in {"returned", "SkyCoordError"}) =>
        \A diff \in {Diff(indicies, accurate_x, accurate_y)} :
        \A stats \in {sigma_clipped_stats(diff)} :
        \A kept \in {{k \in 1 .. Len(indicies) :
                        \/ 2 * diff[k] < stats.median2
                        \/ (2 * diff[k] - stats.median2) * (2 * diff[k] - stats.median2)
                              * stats.n * stats.n < 4 * stats.n2var}} :
            LET keptOrig == {indicies[k] : k \in kept}
                sky == fit_result.gaia_skycoords
                pix == fit_result.gaia_pixcoords
            IN  /\ \A k \in 1 .. Len(indicies) : fit_result.cut[k] <=> k \in kept
                /\ Len(sky) = Cardinality(kept)
                /\ Len(pix[1]) = Len(sky)
                /\ Len(pix[2]) = Len(sky)
                /\ \A n \in 1 .. Len(sky) :
                      LET c == NthSmallest(keptOrig, n)
                      IN  /\ sky[n] = <<current_gaia[c + 1].ra, current_gaia[c + 1].dec>>
                          /\ pix[1][n] = cut_log[c + 1].accurate_x
                          /\ pix[2][n] = cut_log[c + 1].accurate_y

\* C9's case: some candidate failed, sigma clipping dropped a discrepancy,
\* the cut removed a survivor and kept another, and the pairs were returned
C9_Witness ==
    /\ pc = "fitted"
    /\ fit_result.tag = "returned"
    /\ Len(indicies) < Len(current_gaia)
    /\ LET diff == Diff(indicies, accurate_x, accurate_y)
       IN  Len(SigmaClip(diff, MAXITERS)) < Len(diff)
    /\ \E k \in 1 .. Len(indicies) : fit_result.cut[k]
    /\ \E k \in 1 .. Len(indicies) : ~fit_result.cut[k]

\* C10: for a guess whose stamp lies inside the frame, if each fit returns
\* the star's centre measured from the stamp's first row and column
\* (round(guess) - 20), cut_star's refined position is within 0.01 pixel of
\* the star's image position on each axis, whatever the guess's fraction.
C10_RecoversStarCentre ==
    (/\ pc = "returned"
     /\ star_cutout.tag = "tuple"
     /\ StampInside(x_position, y_position, image_shape)
     /\ popt.col.mean \in 0 .. 2 * BOX_PADDING * Q
     /\ popt.row.mean \in 0 .. 2 * BOX_PADDING * Q) =>
        LET star_x == (Round(x_position) - BOX_PADDING) * Q + popt.col.mean
            star_y == (Round(y_position) - BOX_PADDING) * Q + popt.row.mean
        IN  /\ 100 * Abs(star_cutout.accurate_x - star_x) <= Q
            /\ 100 * Abs(star_cutout.accurate_y - star_y) <= Q

====
